---- MODULE Spec2Model ----
(***************************************************************************)
(* Cluster coordinator of finsavvy-cluster/cluster_master.py:              *)
(* ClusterManager (node registry, join / heartbeat / completions handlers) *)
(* and LoadBalancer.select_node.                                           *)
(*                                                                         *)
(* The coordinator is one asyncio process: a handler runs without          *)
(* interleaving up to its next await on the network.  register_node and    *)
(* heartbeat touch the registry only after their single await on the       *)
(* request body, so each is one step.  distribute_request selects a node   *)
(* in one step and then awaits the worker's reply; joins and heartbeats    *)
(* can run during that wait, so the wait is a state of its own (call).     *)
(***************************************************************************)
EXTENDS Integers, Sequences, FiniteSets

VARIABLES
    nodes,      \* ClusterManager.nodes: the dict, as the sequence of its values in insertion order
    session,    \* ClusterManager.session: "None" or "ClientSession"
    now,        \* the wall clock read by datetime.now(), in heartbeat periods
    call,       \* the distribute_request call that is awaiting its worker, if any
    last,       \* the most recent HTTP response the coordinator sent
    agent,      \* the worker agent of cluster_worker.py: ClusterWorker.start and its heartbeat task
    net         \* whether the agent's requests reach the coordinator: "up" or "down"

\* the coordinator's state and the worker side's
cvars == <<nodes, session, now, call, last>>
wvars == <<agent, net>>
vars == <<nodes, session, now, call, last, agent, net>>

----------------------------------------------------------------------------
(* Bounds of the model and the input sets the handlers' payloads are drawn *)
(* from.  An optional JSON field is a sequence: <<>> when the field is     *)
(* absent, <<v>> when it carries v.                                        *)

MaxTime == 2

NodeIds == {"w1", "w2"}
Hosts == {"10.0.0.1", "10.0.0.2"}
StatusInputs == {<<>>, <<"online">>, <<"offline">>}
ModelInputs == {<<>>, <<"gpt-4">>}
WorkerReplies == {[status |-> 200, json |-> TRUE],
                  [status |-> 500, json |-> TRUE],
                  [status |-> 404, json |-> FALSE]}
ForwardErrors == {"timeout", "refused"}

\* Spec: two endpoints per worker and a running clock; every worker offers
\* gpt-4 with the default capacity and reports a load of 0 or 1
JoinInputs ==
    [id : NodeIds, host : Hosts, models : {{"gpt-4"}}, max_load : {<<>>}]
HeartbeatInputs ==
    [id : NodeIds, status : StatusInputs, load : {<<>>, <<1>>}]

\* SpecBalance: one endpoint per worker and a stopped clock; the model lists,
\* capacities and loads vary
BalanceJoinInputs ==
    [id : NodeIds, host : {"10.0.0.1"}, models : {{}, {"gpt-4"}},
     max_load : {<<>>, <<2>>, <<4>>}]
BalanceHeartbeatInputs ==
    [id : NodeIds, status : StatusInputs, load : {<<>>, <<1>>, <<2>>}]

\* SpecAdmission: Joins as a careless client sends them: a well-formed one, one with an empty
\* id, one whose host is no host, one without its "host" key and one without
\* its "id" key
AdmissionJoinInputs ==
    {[id |-> "w1", host |-> "10.0.0.1", models |-> {"gpt-4"}, max_load |-> <<>>],
     [id |-> "", host |-> "10.0.0.1", models |-> {"gpt-4"}, max_load |-> <<>>],
     [id |-> "w1", host |-> "not a host", models |-> {"gpt-4"}, max_load |-> <<>>],
     [id |-> "w1", models |-> {"gpt-4"}, max_load |-> <<>>],
     [host |-> "10.0.0.2", models |-> {"gpt-4"}, max_load |-> <<>>]}

AdmissionHeartbeatInputs ==
    [id : {"", "w1"}, status : StatusInputs, load : {<<>>, <<1>>}]

\* SpecUnvalidated: values a validation would refuse: a status that is neither
\* online nor offline, a negative load, a capacity of zero
UnvalidatedJoinInputs ==
    [id : NodeIds, host : {"10.0.0.1"}, models : {{"gpt-4"}},
     max_load : {<<>>, <<0>>}]
UnvalidatedHeartbeatInputs ==
    [id : NodeIds, status : {<<>>, <<"busy">>}, load : {<<>>, <<-1>>}]

----------------------------------------------------------------------------
(* Program constants *)

DefaultMaxLoad == 100
DefaultLoad == 0
DefaultStatus == "online"
DefaultModel == "gpt-3.5-turbo"

\* the keys register_node reads with data[...]; host stands for the endpoint
\* (host and port), name is left out of the record
RequiredKeys == {"id", "host", "models"}

\* dict.get(key, default) on an optional field
Get(opt, default) == IF opt = <<>> THEN default ELSE opt[1]

----------------------------------------------------------------------------
(* The registry *)

\* position of the record with this id in the dict, 0 when the id is no key
IndexOf(ns, id) ==
    IF \E i \in 1..Len(ns) : ns[i].id = id
    THEN CHOOSE i \in 1..Len(ns) : ns[i].id = id
    ELSE 0

HasNode(ns, id) == IndexOf(ns, id) # 0

\* a Join that keeps the status and the load of the record it replaces
DictSetKeepingState(ns, node) ==
    IF HasNode(ns, node.id)
    THEN [ns EXCEPT ![IndexOf(ns, node.id)] =
             [node EXCEPT !.status = ns[IndexOf(ns, node.id)].status,
                          !.current_load = ns[IndexOf(ns, node.id)].current_load]]
    ELSE Append(ns, node)

\* a registry that a Join rebuilds around the joining node
DictSetAlone(ns, node) == <<node>>

\* DictSet as a list would do it: every Join appends
DictSetAppend(ns, node) == Append(ns, node)

\* self.nodes[node.id] = node: a new key goes last, an existing key keeps its place
DictSet(ns, node) ==
    IF HasNode(ns, node.id)
    THEN [ns EXCEPT ![IndexOf(ns, node.id)] = node]
    ELSE Append(ns, node)

\* the ClusterNode that register_node builds from the join payload
ClusterNode(data, t) ==
    [id             |-> data.id,
     host           |-> data.host,
     models         |-> data.models,
     status         |-> "online",
     last_heartbeat |-> t,
     current_load   |-> 0,
     max_load       |-> Get(data.max_load, DefaultMaxLoad)]

\* a heartbeat that refreshes the status of every record, not only its own
HeartbeatUpdateEvery(ns, data, t) ==
    IF HasNode(ns, data.id)
    THEN [i \in 1..Len(ns) |->
            IF ns[i].id = data.id
            THEN [ns[i] EXCEPT !.last_heartbeat = t,
                               !.status = Get(data.status, DefaultStatus),
                               !.current_load = Get(data.load, DefaultLoad)]
            ELSE [ns[i] EXCEPT !.status = Get(data.status, DefaultStatus)]]
    ELSE ns

\* a heartbeat that creates the record of an id it does not find
HeartbeatUpdateOrCreate(ns, data, t) ==
    IF HasNode(ns, data.id)
    THEN [ns EXCEPT ![IndexOf(ns, data.id)] =
             [@ EXCEPT !.last_heartbeat = t,
                       !.status = Get(data.status, DefaultStatus),
                       !.current_load = Get(data.load, DefaultLoad)]]
    ELSE Append(ns, [id |-> data.id, host |-> "", models |-> {},
                     status |-> Get(data.status, DefaultStatus),
                     last_heartbeat |-> t,
                     current_load |-> Get(data.load, DefaultLoad),
                     max_load |-> DefaultMaxLoad])

\* a registry with reorder protection by time: a heartbeat is dropped unless
\* it is handled later than the record's last update
HeartbeatUpdateIfLater(ns, data, t) ==
    IF HasNode(ns, data.id) /\ ns[IndexOf(ns, data.id)].last_heartbeat < t
    THEN [ns EXCEPT ![IndexOf(ns, data.id)] =
             [@ EXCEPT !.last_heartbeat = t,
                       !.status = Get(data.status, DefaultStatus),
                       !.current_load = Get(data.load, DefaultLoad)]]
    ELSE ns

\* a heartbeat whose handler has written the status and not yet the other two
\* fields when the next request is handled
HeartbeatUpdateStatusOnly(ns, data, t) ==
    IF HasNode(ns, data.id)
    THEN [ns EXCEPT ![IndexOf(ns, data.id)] =
             [@ EXCEPT !.status = Get(data.status, DefaultStatus)]]
    ELSE ns

\* the registry after heartbeat(data): an unknown id changes nothing
HeartbeatUpdate(ns, data, t) ==
    IF HasNode(ns, data.id)
    THEN [ns EXCEPT ![IndexOf(ns, data.id)] =
             [@ EXCEPT !.last_heartbeat = t,
                       !.status = Get(data.status, DefaultStatus),
                       !.current_load = Get(data.load, DefaultLoad)]]
    ELSE ns

----------------------------------------------------------------------------
(* LoadBalancer.select_node *)

\* the filter without its status condition
AvailableAnyStatus(n, model) ==
    model \in n.models /\ n.current_load < n.max_load

\* a filter that also looks at the endpoint
AvailableAtFirstHost(n, model) ==
    /\ n.status = "online"
    /\ model \in n.models
    /\ n.current_load < n.max_load
    /\ n.host = "10.0.0.1"

\* the filter without its load condition
AvailableAnyLoad(n, model) == n.status = "online" /\ model \in n.models

\* the filter of the list comprehension
Available(n, model) ==
    /\ n.status = "online"
    /\ model \in n.models
    /\ n.current_load < n.max_load

AvailableIdx(ns, model) == {i \in 1..Len(ns) : Available(ns[i], model)}

\* the key as the raw load instead of the fraction
KeyLessRawLoad(n, m) == n.current_load < m.current_load

\* n.current_load / n.max_load < m.current_load / m.max_load, both dividers non-zero
KeyLess(n, m) ==
    IF (n.max_load > 0) = (m.max_load > 0)
    THEN n.current_load * m.max_load < m.current_load * n.max_load
    ELSE n.current_load * m.max_load > m.current_load * n.max_load

\* a minimum that prefers the last of the elements with the lowest key
MinByKeyLast(ns, S) ==
    CHOOSE i \in S :
        /\ \A j \in S : ~KeyLess(ns[j], ns[i])
        /\ \A j \in S : (j > i) => KeyLess(ns[i], ns[j])

\* min(available_nodes, key=...): the first element no other element is below
MinByKey(ns, S) ==
    CHOOSE i \in S :
        /\ \A j \in S : ~KeyLess(ns[j], ns[i])
        /\ \A j \in S : (j < i) => KeyLess(ns[i], ns[j])

\* [raised, idx]: idx = 0 is None; raised is the ZeroDivisionError of the key
select_node(ns, model) ==
    LET S == AvailableIdx(ns, model) IN
    IF S = {} THEN [raised |-> FALSE, idx |-> 0]
    ELSE IF \E i \in S : ns[i].max_load = 0 THEN [raised |-> TRUE, idx |-> 0]
    ELSE [raised |-> FALSE, idx |-> MinByKey(ns, S)]

----------------------------------------------------------------------------
(* Responses *)

\* a response of the coordinator: the handler (op) and the id or model of its
\* request (arg), the HTTP status sent, and the line of the handler that
\* produced it
Response(op, arg, code, line) ==
    [op |-> op, arg |-> arg, code |-> code, line |-> line]

\* `return web.json_response(..., status=status)` at this line of a handler.
\* The module binds the name web nowhere: `from aiohttp import web` at lines
\* 44 and 278 is local to start_master and start_llm_server.  Evaluating the
\* name in any other method raises NameError before the response is built,
\* and the aiohttp server answers an exception of a handler with 500.
json_response(op, arg, status, line) == Response(op, arg, 500, line)

NoCall == [pc |-> "idle", model |-> "", node_id |-> "", url |-> "", posts |-> 0]

\* the except branch posting the request once more instead of returning
ForwardingFailedRetry(c, model) ==
    IF c.pc = "forwarding"
    THEN [call |-> [c EXCEPT !.posts = @ + 1], last |-> last]
    ELSE [call |-> NoCall, last |-> json_response("dispatch", model, 502, 161)]

\* the except branch of distribute_request (the 502 return at line 161): the
\* call is over, no other node is tried
ForwardingFailed(c, model) ==
    [call |-> NoCall, last |-> json_response("dispatch", model, 502, 161)]

\* the body of the async-with.  A reply that is JSON, of whatever HTTP status,
\* is annotated with cluster_info and handed to the return at line 159, whose
\* NameError the except branch catches; a reply that is no JSON raises in
\* response.json().  Either way the except branch ends the call.
ForwardingReplied(c, reply) == ForwardingFailed(c, c.model)

\* the worker agent before ClusterWorker.start: its place in start(), what
\* register_with_master returned, the heartbeat task, the capability
\* endpoint, and what the latest heartbeat attempt came to
NoAgent ==
    [pc |-> "start", registered |-> "pending", loop |-> "none",
     server |-> FALSE, beat |-> "none"]

----------------------------------------------------------------------------
(* The state after construction: ClusterManager.__init__ leaves the        *)
(* registry empty and session None.  No method of the class assigns        *)
(* session, so a coordinator started through start_master keeps None; a    *)
(* program that embeds the class can assign the attribute before it        *)
(* serves, which is the second initial state.                              *)

Init ==
    /\ nodes = <<>>
    /\ session \in {"None", "ClientSession"}
    /\ now = 0
    /\ call = NoCall
    /\ last = Response("none", "", 0, 0)
    /\ agent = NoAgent
    /\ net = "up"

\* a Join that also redirects a waiting Dispatch for its id to the new
\* endpoint, as if the URL were read from the registry when the post is sent
register_node_retargeting(data) ==
    /\ IF RequiredKeys \subseteq DOMAIN data
       THEN /\ nodes' = DictSet(nodes, ClusterNode(data, now))
            /\ last' = json_response("join", data.id, 200, 117)
            /\ call' = IF call.pc = "forwarding" /\ call.node_id = data.id
                       THEN [call EXCEPT !.url = data.host]
                       ELSE call
       ELSE /\ nodes' = nodes
            /\ last' = Response("join", "", 500, 103)
            /\ call' = call
    /\ UNCHANGED <<session, now>>

\* POST /cluster/join.  data["id"], data["name"], data["host"], data["port"] and
\* data["models"] raise KeyError when the key is missing, before the registry
\* is touched; nothing else about the payload is looked at.
register_node(data) ==
    /\ IF RequiredKeys \subseteq DOMAIN data
       THEN /\ nodes' = DictSet(nodes, ClusterNode(data, now))
            /\ last' = json_response("join", data.id, 200, 117)
       ELSE /\ nodes' = nodes
            /\ last' = Response("join", "", 500, 103)
    /\ UNCHANGED <<session, now, call>>

\* a heartbeat handler that waits for a lock the forwarding Dispatch holds
heartbeat_after_call(data) ==
    /\ call.pc = "idle"
    /\ nodes' = HeartbeatUpdate(nodes, data, now)
    /\ last' = json_response("heartbeat", data.id, 200, 129)
    /\ UNCHANGED <<session, now, call>>

\* POST /cluster/heartbeat
heartbeat(data) ==
    /\ nodes' = HeartbeatUpdate(nodes, data, now)
    /\ last' = json_response("heartbeat", data.id, 200, 129)
    /\ UNCHANGED <<session, now, call>>

\* POST /cluster/completions, up to the await on the worker.  An exception of
\* select_node leaves the handler (500); session None makes self.session.post
\* raise AttributeError inside the try, before anything is sent.  The model
\* holds one call that awaits its worker: while it waits, a further request
\* is handled when it ends without a forward of its own.
distribute_request(data) ==
    LET requested_model == Get(data.model, DefaultModel)
        sel == select_node(nodes, requested_model)
        best_node == nodes[sel.idx]
    IN  /\ call.pc = "idle" \/ sel.raised \/ sel.idx = 0
        /\ IF sel.raised
           THEN /\ last' = Response("dispatch", requested_model, 500, 186)
                /\ call' = call
           ELSE IF sel.idx = 0
           THEN /\ last' = json_response("dispatch", requested_model, 503, 140)
                /\ call' = call
           ELSE IF session = "None"
           THEN /\ last' = ForwardingFailed(call, requested_model).last
                /\ call' = ForwardingFailed(call, requested_model).call
           ELSE /\ call' = [pc |-> "forwarding", model |-> requested_model,
                            node_id |-> best_node.id, url |-> best_node.host,
                            posts |-> 1]
                /\ last' = last
        /\ UNCHANGED <<nodes, session, now>>

\* the worker's reply arrives
forward_reply(reply) ==
    /\ call.pc = "forwarding"
    /\ call' = ForwardingReplied(call, reply).call
    /\ last' = ForwardingReplied(call, reply).last
    /\ UNCHANGED <<nodes, session, now>>

\* a coordinator that takes a failed forward as a sign of death and marks the
\* node it had selected offline
forward_error_marking(cause) ==
    /\ call.pc = "forwarding"
    /\ nodes' = [i \in 1..Len(nodes) |->
                   IF nodes[i].id = call.node_id
                   THEN [nodes[i] EXCEPT !.status = "offline"]
                   ELSE nodes[i]]
    /\ call' = ForwardingFailed(call, call.model).call
    /\ last' = ForwardingFailed(call, call.model).last
    /\ UNCHANGED <<session, now>>

\* the POST raises instead (connection refused, timeout)
forward_error(cause) ==
    /\ call.pc = "forwarding"
    /\ call' = ForwardingFailed(call, call.model).call
    /\ last' = ForwardingFailed(call, call.model).last
    /\ UNCHANGED <<nodes, session, now>>

\* the caller goes away while the handler awaits the worker: the handler's
\* task is cancelled, CancelledError is no Exception and leaves the handler,
\* no response is sent
forward_cancel ==
    /\ call.pc = "forwarding"
    /\ call' = NoCall
    /\ UNCHANGED <<nodes, session, now, last>>

\* the counts cluster_status computes for its answer
RECURSIVE SumModels(_)
SumModels(ns) ==
    IF ns = <<>> THEN 0 ELSE Cardinality(Head(ns).models) + SumModels(Tail(ns))

cluster_status_body(ns) ==
    [total_nodes  |-> Len(ns),
     online_nodes |-> Cardinality({i \in 1..Len(ns) : ns[i].status = "online"}),
     total_models |-> SumModels(ns)]

\* GET /cluster/status: the counts are computed, then the return raises
cluster_status ==
    /\ last' = json_response("status", "", 200, 67)
    /\ UNCHANGED <<nodes, session, now, call>>

\* GET /cluster/nodes: the list is built in one pass, then the return raises
list_nodes ==
    /\ last' = json_response("nodes", "", 200, 96)
    /\ UNCHANGED <<nodes, session, now, call>>

\* one heartbeat period passes
Tick ==
    /\ now < MaxTime
    /\ now' = now + 1
    /\ UNCHANGED <<nodes, session, call, last>>

Next ==
    \/ (\E data \in JoinInputs : register_node(data)) /\ UNCHANGED wvars
    \/ (\E data \in HeartbeatInputs : heartbeat(data)) /\ UNCHANGED wvars
    \/ (\E m \in ModelInputs : distribute_request([model |-> m])) /\ UNCHANGED wvars
    \/ (\E reply \in WorkerReplies : forward_reply(reply)) /\ UNCHANGED wvars
    \/ (\E cause \in ForwardErrors : forward_error(cause)) /\ UNCHANGED wvars
    \/ forward_cancel /\ UNCHANGED wvars
    \/ Tick /\ UNCHANGED wvars

Spec == Init /\ [][Next]_vars

NextBalance ==
    \/ (\E data \in BalanceJoinInputs : register_node(data)) /\ UNCHANGED wvars
    \/ (\E data \in BalanceHeartbeatInputs : heartbeat(data)) /\ UNCHANGED wvars
    \/ (\E m \in ModelInputs : distribute_request([model |-> m])) /\ UNCHANGED wvars
    \/ (\E reply \in WorkerReplies : forward_reply(reply)) /\ UNCHANGED wvars
    \/ (\E cause \in ForwardErrors : forward_error(cause)) /\ UNCHANGED wvars
    \/ forward_cancel /\ UNCHANGED wvars

SpecBalance == Init /\ [][NextBalance]_vars

\* the coordinator under values a validation would refuse
NextUnvalidated ==
    \/ (\E data \in UnvalidatedJoinInputs : register_node(data)) /\ UNCHANGED wvars
    \/ (\E data \in UnvalidatedHeartbeatInputs : heartbeat(data)) /\ UNCHANGED wvars
    \/ (\E m \in ModelInputs : distribute_request([model |-> m])) /\ UNCHANGED wvars
    \/ (\E reply \in WorkerReplies : forward_reply(reply)) /\ UNCHANGED wvars
    \/ (\E cause \in ForwardErrors : forward_error(cause)) /\ UNCHANGED wvars
    \/ forward_cancel /\ UNCHANGED wvars

SpecUnvalidated == Init /\ [][NextUnvalidated]_vars

\* all five routes of start_master, with a stopped clock
NextService ==
    \/ (\E data \in JoinInputs : register_node(data)) /\ UNCHANGED wvars
    \/ (\E data \in HeartbeatInputs : heartbeat(data)) /\ UNCHANGED wvars
    \/ (\E m \in ModelInputs : distribute_request([model |-> m])) /\ UNCHANGED wvars
    \/ (\E reply \in WorkerReplies : forward_reply(reply)) /\ UNCHANGED wvars
    \/ (\E cause \in ForwardErrors : forward_error(cause)) /\ UNCHANGED wvars
    \/ forward_cancel /\ UNCHANGED wvars
    \/ cluster_status /\ UNCHANGED wvars
    \/ list_nodes /\ UNCHANGED wvars

SpecService == Init /\ [][NextService]_vars

----------------------------------------------------------------------------
(* The worker agent, cluster_worker.py.  ClusterWorker.start registers,      *)
(* creates the heartbeat task and starts the capability endpoint, in that   *)
(* order; each request of the agent is handled by the coordinator's handler *)
(* above when it gets through, and raises in the agent when it does not.    *)
(* WorkerNode in cluster_master.py has the same three steps and the same    *)
(* loop.                                                                    *)

\* the payloads of register_with_master and of heartbeat_loop
WorkerJoin ==
    [id |-> "w1", host |-> "10.0.0.1", models |-> {"gpt-4"}, max_load |-> <<10>>]

WorkerBeat == [id |-> "w1", status |-> <<"online">>, load |-> <<2>>]

\* what register_with_master returns on the coordinator's answer: True when
\* the body is JSON with status "registered", which only the return of
\* register_node sends; an answer without JSON makes response.json() raise
Registered(resp) ==
    IF resp.code = 200 /\ resp.line = 117 THEN "True" ELSE "False"

\* what one pass of heartbeat_loop prints on the coordinator's answer
BeatResult(resp) == IF resp.code = 200 THEN "sent" ELSE "failed"

\* a loop whose except branch gives up
AfterAttemptGivingUp(result) == IF result = "error" THEN "ended" ELSE "running"

\* the heartbeat task after a pass: every outcome, the exception included,
\* ends in the sleep at the foot of while True
AfterAttempt(result) == "running"

\* start, line 49: await self.register_with_master(); what it returns is dropped
worker_register ==
    /\ agent.pc = "start"
    /\ \/ /\ net = "up"
          /\ register_node(WorkerJoin)
          /\ agent' = [agent EXCEPT !.pc = "create_task",
                                    !.registered = Registered(last')]
       \/ /\ net = "down"
          /\ agent' = [agent EXCEPT !.pc = "create_task", !.registered = "False"]
          /\ UNCHANGED cvars
    /\ net' = net

\* start, line 52: the heartbeat task is created
worker_create_task ==
    /\ agent.pc = "create_task"
    /\ agent' = [agent EXCEPT !.pc = "start_llm_server", !.loop = "running"]
    /\ UNCHANGED <<cvars, net>>

\* start, line 55: the capability endpoint listens
worker_start_llm_server ==
    /\ agent.pc = "start_llm_server"
    /\ agent' = [agent EXCEPT !.pc = "ready", !.server = TRUE]
    /\ UNCHANGED <<cvars, net>>

\* one pass of heartbeat_loop
worker_heartbeat ==
    /\ agent.loop = "running"
    /\ \/ /\ net = "up"
          /\ heartbeat(WorkerBeat)
          /\ agent' = [agent EXCEPT !.beat = BeatResult(last'),
                                    !.loop = AfterAttempt(BeatResult(last'))]
       \/ /\ net = "down"
          /\ agent' = [agent EXCEPT !.beat = "error",
                                    !.loop = AfterAttempt("error")]
          /\ UNCHANGED cvars
    /\ net' = net

\* the coordinator becomes unreachable for the agent, or reachable again
net_change ==
    /\ net' = IF net = "up" THEN "down" ELSE "up"
    /\ UNCHANGED <<cvars, agent>>

NextWorker ==
    \/ worker_register
    \/ worker_create_task
    \/ worker_start_llm_server
    \/ worker_heartbeat
    \/ net_change
    \/ (\E data \in HeartbeatInputs : heartbeat(data)) /\ UNCHANGED wvars
    \/ Tick /\ UNCHANGED wvars

\* the event loop wakes the heartbeat task from its sleep
SpecWorker == Init /\ [][NextWorker]_vars /\ WF_vars(worker_heartbeat)

\* the coordinator under Joins that a validation would have to look at
NextAdmission ==
    \/ (\E data \in AdmissionJoinInputs : register_node(data)) /\ UNCHANGED wvars
    \/ (\E data \in AdmissionHeartbeatInputs : heartbeat(data)) /\ UNCHANGED wvars
    \/ (\E m \in ModelInputs : distribute_request([model |-> m])) /\ UNCHANGED wvars
    \/ (\E reply \in WorkerReplies : forward_reply(reply)) /\ UNCHANGED wvars
    \/ (\E cause \in ForwardErrors : forward_error(cause)) /\ UNCHANGED wvars
    \/ forward_cancel /\ UNCHANGED wvars
    \/ Tick /\ UNCHANGED wvars

SpecAdmission == Init /\ [][NextAdmission]_vars

----------------------------------------------------------------------------
(* Vocabulary of the properties.  These restate the design's terms on      *)
(* their own, without the operators that model select_node.                *)

\* the record is online, offers the capability and is below its ceiling
Eligible(n, model) ==
    n.status = "online" /\ model \in n.models /\ n.current_load < n.max_load

Records == {nodes[i] : i \in 1..Len(nodes)}

RecordsOf(id) == {n \in Records : n.id = id}

\* this step is a Dispatch that chose the record n: it posts the request to n
Chose(n) ==
    call.pc = "idle" /\ call'.pc = "forwarding" /\ call'.node_id = n.id

\* the load fractions of two records with positive ceilings, by cross-multiplication
FractionLeq(n, m) == n.current_load * m.max_load <= m.current_load * n.max_load

FractionEq(n, m) == n.current_load * m.max_load = m.current_load * n.max_load

\* a Join payload is malformed: a required field is missing, the identity is
\* empty, or the endpoint is no host address
Malformed(data) ==
    \/ ~({"id", "host", "models"} \subseteq DOMAIN data)
    \/ data.id = ""
    \/ data.host \notin Hosts

\* the registry with its endpoints replaced: record i gets the endpoint f[i]
Rehosted(ns, f) == [i \in 1..Len(ns) |-> [ns[i] EXCEPT !.host = f[i]]]

----------------------------------------------------------------------------
\* C1: the registry holds exactly one record per node id; a Join whose id is
\* already present replaces that record, so the registry shows the endpoint of
\* the most recent Join for the id, and the number of records does not grow.
C1_OneRecordPerId ==
    [][/\ \A id \in NodeIds : Cardinality({i \in 1..Len(nodes') : nodes'[i].id = id}) <= 1
       /\ \A data \in JoinInputs :
            register_node(data) =>
              /\ \A i \in 1..Len(nodes') :
                    nodes'[i].id = data.id => nodes'[i].host = data.host
              /\ \E i \in 1..Len(nodes') : nodes'[i].id = data.id
              /\ RecordsOf(data.id) # {} => Len(nodes') = Len(nodes)]_vars

\* C1 witness: w1 joined, then w2, and the latest request was a second Join of
\* w1 that moved it to another endpoint
C1_Witness ==
    /\ Len(nodes) = 2
    /\ last.op = "join"
    /\ last.arg = nodes[1].id
    /\ nodes[1].host = "10.0.0.2"
    /\ nodes[2].host = "10.0.0.1"

\* C2: a Heartbeat for an id that has no record is answered with the NotFound
\* outcome, HTTP 404 (records are never removed, so an id that has no record
\* now had none when the heartbeat was handled).
C2_HeartbeatBeforeJoinFails ==
    (last.op = "heartbeat" /\ RecordsOf(last.arg) = {}) => last.code = 404

\* C3: the node a Dispatch selects is online, offers the requested capability
\* and has currentLoad < maxLoad in the registry the selection read.
C3_SelectedIsEligible ==
    [][\A m \in ModelInputs :
         distribute_request([model |-> m]) =>
           \A n \in Records : Chose(n) => Eligible(n, Get(m, DefaultModel))]_vars

\* C3 witness: a Dispatch is forwarding to one node while the other record,
\* which offers the capability too and is online, is at its ceiling
C3_Witness ==
    /\ call.pc = "forwarding"
    /\ \E n \in Records :
         /\ n.id # call.node_id
         /\ call.model \in n.models
         /\ n.status = "online"
         /\ n.current_load >= n.max_load

\* C4: when no record is eligible for the requested capability, Dispatch
\* answers 503 at once and forwards to no worker.
C4_NoEligibleNode ==
    [][\A m \in ModelInputs :
         (/\ distribute_request([model |-> m])
          /\ \A n \in Records : ~Eligible(n, Get(m, DefaultModel))) =>
           /\ last'.op = "dispatch"
           /\ last'.code = 503
           /\ call' = NoCall]_vars

\* C5: the selected node's load fraction is at most that of every eligible node.
C5_MinimalFraction ==
    [][\A m \in ModelInputs :
         distribute_request([model |-> m]) =>
           \A n \in Records :
             Chose(n) =>
               \A o \in Records :
                 Eligible(o, Get(m, DefaultModel)) => FractionLeq(n, o)]_vars

\* C5 witness: the node being forwarded to carries more raw load than another
\* eligible node, and a strictly smaller fraction
C5_Witness ==
    /\ call.pc = "forwarding"
    /\ \E n \in Records, o \in Records :
         /\ n.id = call.node_id
         /\ Eligible(n, call.model)
         /\ Eligible(o, call.model)
         /\ o.current_load < n.current_load
         /\ ~FractionLeq(o, n)

\* C6: among the eligible nodes that tie on the minimal load fraction, the
\* selected one has the lowest currentLoad, whatever the registration order.
C6_TieByLowestLoad ==
    [][\A m \in ModelInputs :
         distribute_request([model |-> m]) =>
           \A n \in Records :
             Chose(n) =>
               \A o \in Records :
                 (Eligible(o, Get(m, DefaultModel)) /\ FractionEq(n, o)) =>
                   n.current_load <= o.current_load]_vars

\* C7: a node whose last heartbeat or registration is two heartbeat periods
\* old has been marked offline by the liveness sweep, so a Dispatch for a
\* capability that only such nodes offer selects no node.
C7_StaleNodeNotSelected ==
    [][\A m \in ModelInputs :
         (/\ distribute_request([model |-> m])
          /\ \A n \in Records :
               Get(m, DefaultModel) \in n.models => now - n.last_heartbeat >= 2) =>
           /\ call'.pc = "idle"
           /\ last'.op = "dispatch"
           /\ last'.line = 140]_vars

\* C8: on a coordinator as start_master leaves it, a Dispatch for a capability
\* with an eligible node is forwarded to that node, and the successful reply
\* comes back with status 200.
C8_DispatchServes ==
    [][/\ \A m \in ModelInputs :
            (/\ distribute_request([model |-> m])
             /\ session = "None"
             /\ \E n \in Records : Eligible(n, Get(m, DefaultModel))) =>
              call'.pc = "forwarding"
       /\ \A reply \in WorkerReplies :
            (forward_reply(reply) /\ reply.status = 200 /\ reply.json) =>
              last'.op = "dispatch" /\ last'.code = 200]_vars

\* C9: a forwarding failure of any cause (timeout, connection refused, a
\* non-success status from the worker) ends the Dispatch with 502.
C9_ForwardingFailed ==
    [][/\ \A cause \in ForwardErrors :
            forward_error(cause) => last'.op = "dispatch" /\ last'.code = 502
       /\ \A reply \in WorkerReplies :
            (forward_reply(reply) /\ reply.status # 200) =>
              last'.op = "dispatch" /\ last'.code = 502]_vars

\* C10: a Dispatch posts to at most one node, once: whatever ends the wait for
\* the worker ends the call, with its response unless the caller has gone,
\* and no further post is made.
C10_AtMostOneAttempt ==
    [][/\ call'.posts <= 1
       /\ (call.pc = "forwarding" /\ call' # call) =>
            /\ call' = NoCall
            /\ \/ last' = last
               \/ last'.op = "dispatch" /\ last'.arg = call.model]_vars

\* C10 witness: a forwarded Dispatch has failed while another node is
\* eligible for the same capability
C10_Witness ==
    /\ session = "ClientSession"
    /\ call.pc = "idle"
    /\ last.op = "dispatch"
    /\ last.line = 161
    /\ Cardinality({n \in Records : Eligible(n, last.arg)}) = 2

\* C11: a Dispatch that has completed ended in one of its three outcomes: the
\* worker's response passed on with status 200, 503 NoEligibleNode or 502
\* ForwardingFailed.
C11_DispatchOutcome ==
    last.op = "dispatch" => last.code \in {200, 502, 503}

\* C12: a Join with malformed input (empty identity, missing field, malformed
\* endpoint) is not answered as a success and leaves the registry as it was.
C12_MalformedJoinRejected ==
    [][\A data \in AdmissionJoinInputs :
         (register_node(data) /\ Malformed(data)) =>
           /\ nodes' = nodes
           /\ last'.op = "join"
           /\ last'.code # 200]_vars

\* C13: a Heartbeat for an id that has joined succeeds, whatever requests were
\* handled before it, and afterwards the registry has the same records, the
\* one of that id with the currentLoad the heartbeat reported and every other
\* with the currentLoad it had.
C13_ConcurrentHeartbeats ==
    [][\A data \in BalanceHeartbeatInputs :
         (heartbeat(data) /\ RecordsOf(data.id) # {}) =>
           /\ last'.op = "heartbeat"
           /\ last'.code = 200
           /\ Len(nodes') = Len(nodes)
           /\ \A i \in 1..Len(nodes) :
                 /\ nodes'[i].id = nodes[i].id
                 /\ nodes'[i].current_load =
                      IF nodes[i].id = data.id
                      THEN Get(data.load, DefaultLoad)
                      ELSE nodes[i].current_load]_vars

\* C14: an accepted Heartbeat writes status, currentLoad and lastHeartbeat in
\* one step: the record of its id goes from its old value to the one with all
\* three new values, and no step changes a record that stays in the registry
\* in any other way than such a whole update or a Join of its id, so no
\* request handled in between reads a record with only some of the values.
C14_HeartbeatAtomic ==
    [][/\ \A data \in HeartbeatInputs :
            (last'.op = "heartbeat" /\ last'.arg = data.id /\ heartbeat(data)) =>
              \A i \in 1..Len(nodes) :
                nodes[i].id = data.id =>
                  nodes'[i] = [nodes[i] EXCEPT
                                 !.status = Get(data.status, DefaultStatus),
                                 !.current_load = Get(data.load, DefaultLoad),
                                 !.last_heartbeat = now]
       /\ \A i \in 1..Len(nodes) :
            nodes'[i] # nodes[i] =>
              \/ \E data \in HeartbeatInputs :
                    /\ data.id = nodes[i].id
                    /\ nodes'[i] = [nodes[i] EXCEPT
                                      !.status = Get(data.status, DefaultStatus),
                                      !.current_load = Get(data.load, DefaultLoad),
                                      !.last_heartbeat = now]
              \/ last'.op = "join" /\ last'.arg = nodes[i].id]_vars

\* C14 witness: the latest request was a Heartbeat that gave its record a
\* status, a load and a time that all differ from what the Join had stored,
\* while a Dispatch that read the registry is in flight
C14_Witness ==
    /\ last.op = "heartbeat"
    /\ call.pc = "forwarding"
    /\ \E n \in Records :
         /\ n.id = last.arg
         /\ n.status = "offline"
         /\ n.current_load = 1
         /\ n.last_heartbeat = now
         /\ now > 0

\* C15: a Dispatch leaves every registry record as it was, whatever its
\* outcome: each step that starts, forwards, answers or abandons a Dispatch
\* (it changes the pending call, or sends a Dispatch response) keeps the
\* registry unchanged.
C15_DispatchLeavesRegistry ==
    [][(call' # call \/ (last' # last /\ last'.op = "dispatch")) =>
         nodes' = nodes]_vars

\* C15 witness: the only node of the registry was selected with a load of 1,
\* the forward to it failed, and it is still eligible with that load
C15_Witness ==
    /\ session = "ClientSession"
    /\ call.pc = "idle"
    /\ last.op = "dispatch"
    /\ last.line = 161
    /\ Len(nodes) = 1
    /\ Eligible(nodes[1], last.arg)
    /\ nodes[1].current_load = 1

\* C16: records are never removed: an id that has a record keeps one through
\* every step, so the registry only grows.
C16_NeverRemoved ==
    [][/\ Len(nodes') >= Len(nodes)
       /\ \A id \in NodeIds :
            RecordsOf(id) # {} => \E i \in 1..Len(nodes') : nodes'[i].id = id]_vars

\* C16 witness: two nodes joined, both reported themselves offline and have
\* been silent for two periods, one has joined again since, and both records
\* are still there
C16_Witness ==
    /\ Len(nodes) = 2
    /\ last.op = "join"
    /\ \E n \in Records : n.status = "offline" /\ now - n.last_heartbeat >= 2
    /\ \E n \in Records : n.id = last.arg /\ n.last_heartbeat = now

\* C17 (as stated): an offline record becomes online only as the effect of a
\* Heartbeat for its id; no other operation of the coordinator turns an
\* offline record online.
C17_OnlyHeartbeatRevives ==
    [][\A i \in 1..Len(nodes) :
         (nodes[i].status = "offline" /\ nodes'[i].status = "online") =>
           /\ last'.op = "heartbeat"
           /\ last'.arg = nodes[i].id]_vars

\* C17 (amended): an offline record becomes online only as the effect of a
\* Heartbeat for its id that reports online or no status, or of a Join of its
\* id, which replaces it by an online record; no Dispatch, no outcome of a
\* forward and no passing of time turns an offline record online.
C17_HeartbeatOrJoinRevives ==
    [][\A i \in 1..Len(nodes) :
         (nodes[i].status = "offline" /\ nodes'[i].status = "online") =>
           \/ \E data \in HeartbeatInputs :
                 /\ heartbeat(data)
                 /\ data.id = nodes[i].id
                 /\ Get(data.status, DefaultStatus) = "online"
           \/ \E data \in JoinInputs :
                 /\ register_node(data)
                 /\ data.id = nodes[i].id]_vars

\* C17 witness: the first node has just joined again, two periods after the
\* start, and is online with no load next to a second record that is
\* offline with the load it last reported
C17_Witness ==
    /\ Len(nodes) = 2
    /\ last.op = "join"
    /\ last.arg = nodes[1].id
    /\ nodes[1].status = "online"
    /\ nodes[1].last_heartbeat = now
    /\ now >= 2
    /\ nodes[2].status = "offline"
    /\ nodes[2].current_load = 1

\* C18: when the registration at startup has failed, the agent does not go
\* on: it has no heartbeat task and no capability endpoint.
C18_NoServiceUnregistered ==
    agent.registered = "False" => (agent.loop = "none" /\ ~agent.server)

\* C19: a failed heartbeat never ends the agent's heartbeat loop: the loop,
\* once running, is running after every step, whatever the attempt came to,
\* so another heartbeat is attempted at the next tick; and while the loop
\* runs, a heartbeat eventually gets through to the coordinator unless the
\* coordinator becomes unreachable again.
C19_LoopSurvivesFailure ==
    /\ [][agent.loop = "running" => agent'.loop = "running"]_vars
    /\ [](agent.loop = "running" =>
            <>(net = "down" \/ agent.beat \in {"sent", "failed"}))

\* C19 witness: the latest heartbeat attempt raised, the loop is running and
\* the coordinator is reachable again
C19_Witness ==
    /\ agent.beat = "error"
    /\ agent.loop = "running"
    /\ net = "up"

\* C20: when the agent's heartbeat reaches a coordinator that has no record
\* of the agent's id, it is answered with the not-found failure and the agent
\* goes back to its registration step.
C20_UnknownWorkerReregisters ==
    [][(worker_heartbeat /\ net = "up" /\ RecordsOf(WorkerBeat.id) = {}) =>
         /\ last'.code = 404
         /\ agent'.pc = "start"]_vars

\* C21: in every reachable registry state each record's status is online or
\* offline, whatever status values joins and heartbeats carried.
C21_StatusOnlineOrOffline ==
    \A n \in Records : n.status \in {"online", "offline"}

\* C22: in every reachable registry state each record has currentLoad >= 0
\* and maxLoad >= 1, whatever values joins and heartbeats reported.
C22_LoadAndCapacityInRange ==
    \A n \in Records : n.current_load >= 0 /\ n.max_load >= 1

\* C23: a Join with an empty capability set succeeds and creates the record,
\* and no Dispatch, whatever capability it asks for, selects a record whose
\* capability set is empty.
C23_EmptyCapabilitySet ==
    [][/\ \A data \in BalanceJoinInputs :
            (register_node(data) /\ data.models = {}) =>
              /\ last'.op = "join"
              /\ last'.code = 200
              /\ \E i \in 1..Len(nodes') :
                    nodes'[i].id = data.id /\ nodes'[i].models = {}
       /\ \A n \in Records : n.models = {} => ~Chose(n)]_vars

\* C24: the cluster status operation answers with the counts of the registry
\* it reads: total nodes is the number of records, online nodes the number of
\* records with status online, and the capability count the number of
\* distinct capabilities offered, one offered by several nodes counted once.
C24_StatusCounts ==
    [][cluster_status =>
         /\ last'.op = "status"
         /\ last'.code = 200
         /\ cluster_status_body(nodes).total_nodes = Cardinality(Records)
         /\ cluster_status_body(nodes).online_nodes =
              Cardinality({n \in Records : n.status = "online"})
         /\ cluster_status_body(nodes).online_nodes <=
              cluster_status_body(nodes).total_nodes
         /\ cluster_status_body(nodes).total_models =
              Cardinality(UNION {n.models : n \in Records})]_vars

\* C25: each of the four failures is answered in its own error category, none
\* as a success: a malformed Join with 400 (bad request), a Heartbeat for an
\* id without a record with 404 (not found), a Dispatch without an eligible
\* node with 503, and a Dispatch whose forward failed with 502.
C25_FailureCategories ==
    [][/\ \A data \in AdmissionJoinInputs :
            (register_node(data) /\ Malformed(data)) =>
              last'.op = "join" /\ last'.code = 400
       /\ \A data \in AdmissionHeartbeatInputs :
            (heartbeat(data) /\ RecordsOf(data.id) = {}) =>
              last'.op = "heartbeat" /\ last'.code = 404
       /\ \A m \in ModelInputs :
            (/\ distribute_request([model |-> m])
             /\ \A n \in Records : ~Eligible(n, Get(m, DefaultModel))) =>
              last'.op = "dispatch" /\ last'.code = 503
       /\ \A cause \in ForwardErrors :
            forward_error(cause) => last'.op = "dispatch" /\ last'.code = 502]_vars

C27_SelectionSnapshot ==
    [][/\ \A n \in Records :
            Chose(n) =>
              /\ Eligible(n, call'.model)
              /\ \A o \in Records :
                    Eligible(o, call'.model) => FractionLeq(n, o)
              /\ call'.url = n.host
       /\ (call.pc = "forwarding" /\ call'.pc = "forwarding") => call' = call]_vars

\* C27 witness: while the Dispatch waits for its post to the old endpoint,
\* the selected node has joined again at another endpoint, and another
\* record is eligible for the capability
C27_Witness ==
    /\ call.pc = "forwarding"
    /\ \E n \in Records, o \in Records :
         /\ n.id = call.node_id
         /\ n.host # call.url
         /\ o.id # call.node_id
         /\ Eligible(o, call.model)
         /\ n.current_load = 0

\* C28: the registry applies joins and heartbeats in the order it handles
\* them, with no protection against reordering: after a Heartbeat for an id
\* with a record, the record's status and currentLoad are those of that
\* heartbeat, whatever they were; after a Join they are online and 0; and a
\* step that handles neither for the id leaves both as they were.
C28_LastProcessedWins ==
    [][/\ \A data \in HeartbeatInputs :
            (last'.op = "heartbeat" /\ last'.arg = data.id /\ heartbeat(data)) =>
              \A i \in 1..Len(nodes) :
                nodes[i].id = data.id =>
                  /\ nodes'[i].status = Get(data.status, DefaultStatus)
                  /\ nodes'[i].current_load = Get(data.load, DefaultLoad)
       /\ \A data \in JoinInputs :
            (last'.op = "join" /\ last'.arg = data.id /\ register_node(data)) =>
              \A i \in 1..Len(nodes') :
                nodes'[i].id = data.id =>
                  /\ nodes'[i].status = "online"
                  /\ nodes'[i].current_load = 0
       /\ \A i \in 1..Len(nodes) :
            (last'.op \notin {"join", "heartbeat"} \/ last'.arg # nodes[i].id) =>
              /\ nodes'[i].status = nodes[i].status
              /\ nodes'[i].current_load = nodes[i].current_load]_vars

\* C28 witness: the latest heartbeat of a node reported it offline with no
\* load field, next to a record that carries a load of 1
C28_Witness ==
    /\ Len(nodes) = 2
    /\ last.op = "heartbeat"
    /\ call.pc = "idle"
    /\ \E n \in Records, o \in Records :
         /\ n.id = last.arg
         /\ n.status = "offline"
         /\ n.current_load = 0
         /\ o.id # n.id
         /\ o.current_load = 1

C30_UnknownHeartbeatNoEffect ==
    [][\A data \in HeartbeatInputs :
         (/\ last'.op = "heartbeat"
          /\ last'.arg = data.id
          /\ heartbeat(data)
          /\ RecordsOf(data.id) = {}) =>
           nodes' = nodes]_vars

\* C30 witness: the latest request was a Heartbeat for an id without a
\* record, a period after the only record was last updated, and that record
\* still shows the offline status and the load it had reported
C30_Witness ==
    /\ last.op = "heartbeat"
    /\ RecordsOf(last.arg) = {}
    /\ Len(nodes) = 1
    /\ nodes[1].status = "offline"
    /\ nodes[1].current_load = 1
    /\ nodes[1].last_heartbeat < now

\* C31: the status a heartbeat reports controls eligibility: no Dispatch
\* selects a record whose status is not online; a Heartbeat that reports a
\* status other than online leaves its record eligible for no capability;
\* and a Heartbeat that reports online, or no status, with a load below the
\* record's maxLoad leaves it eligible for each of its capabilities.
C31_StatusControlsEligibility ==
    [][/\ \A n \in Records : n.status # "online" => ~Chose(n)
       /\ \A data \in BalanceHeartbeatInputs :
            (last'.op = "heartbeat" /\ last'.arg = data.id /\ heartbeat(data)) =>
              \A i \in 1..Len(nodes) :
                nodes[i].id = data.id =>
                  /\ Get(data.status, DefaultStatus) # "online" =>
                        \A m \in nodes[i].models : ~Eligible(nodes'[i], m)
                  /\ (/\ Get(data.status, DefaultStatus) = "online"
                      /\ Get(data.load, DefaultLoad) < nodes[i].max_load) =>
                        \A m \in nodes[i].models : Eligible(nodes'[i], m)]_vars

\* C31 witness: a Dispatch is forwarding to a node although another record
\* offers the capability with a strictly smaller load fraction: that record
\* has reported itself offline
C31_Witness ==
    /\ call.pc = "forwarding"
    /\ \E n \in Records, o \in Records :
         /\ n.id = call.node_id
         /\ o.id # n.id
         /\ o.status = "offline"
         /\ call.model \in o.models
         /\ o.current_load < o.max_load
         /\ Eligible(n, call.model)
         /\ ~FractionLeq(n, o)

\* C32: a Join stores its record with status online, currentLoad 0 and
\* lastHeartbeat at the time of the Join, whether the id is new or has a
\* record of whatever status and load; so with a capacity of at least 1 the
\* node is eligible for each capability it joined with right after the Join.
C32_JoinStoresFreshRecord ==
    [][\A data \in JoinInputs \cup BalanceJoinInputs :
         (last'.op = "join" /\ last'.arg = data.id /\ register_node(data)) =>
           /\ Cardinality({i \in 1..Len(nodes') : nodes'[i].id = data.id}) = 1
           /\ \A i \in 1..Len(nodes') :
                 nodes'[i].id = data.id =>
                   /\ nodes'[i].status = "online"
                   /\ nodes'[i].current_load = 0
                   /\ nodes'[i].last_heartbeat = now
                   /\ nodes'[i].max_load >= 1 =>
                         \A m \in data.models : Eligible(nodes'[i], m)]_vars

\* C32 witness: a period or more after the start, the latest request was a
\* Join of the id of the first of two records, hence a Join that replaced a
\* record; the record there is at the second endpoint, carries the time of
\* that Join and no load, and is eligible, next to a record with a load of 1
C32_Witness ==
    /\ now > 0
    /\ Len(nodes) = 2
    /\ last.op = "join"
    /\ last.arg = nodes[1].id
    /\ nodes[1].host = "10.0.0.2"
    /\ nodes[1].last_heartbeat = now
    /\ nodes[1].current_load = 0
    /\ Eligible(nodes[1], "gpt-4")
    /\ nodes[2].status = "online"
    /\ nodes[2].current_load = 1

\* C33: node selection never fails with an arithmetic error: in every
\* reachable registry, whatever integers joins and heartbeats stored,
\* select_node returns a node or none for every requested capability, and a
\* Dispatch that has ended did so at one of its three returns.
C33_SelectionNeverRaises ==
    /\ \A m \in ModelInputs : ~select_node(nodes, Get(m, DefaultModel)).raised
    /\ last.op = "dispatch" => last.line \in {140, 159, 161}

C35_ListeningBeforeSelectable ==
    (\E n \in Records : n.id = WorkerJoin.id /\ n.status = "online") =>
      agent.server

====
